---------------------------- MODULE Spec2Model ----------------------------
(***************************************************************************)
(* Break It Down AI (break-it-down-ai/main.py): one HTTP endpoint,         *)
(* POST /generate-steps, that turns a short task into exactly three steps, *)
(* with a remote completion call when a credential is configured and a    *)
(* fixed local fallback otherwise.                                         *)
(*                                                                         *)
(* Text is modelled as a sequence of one-character strings, so that        *)
(* stripping, whitespace collapsing, truncation, line splitting and the    *)
(* list-marker pattern are computed character by character.  An optional   *)
(* value (Python's None or a value) is a sequence of length 0 or 1.        *)
(***************************************************************************)
EXTENDS Integers, Sequences, FiniteSets

VARIABLES
    OPENAI_API_KEY, \* os.getenv("OPENAI_API_KEY"): None or a string
    pc,             \* where each request is
    payload,        \* payload.task of each request, as posted
    task,           \* the handler's local `task` (normalized)
    queue,          \* calls handed to asyncio.to_thread, not yet started
    content,        \* response.choices[0].message.content of the remote call
    steps,          \* what _generate_with_openai returned to the handler
    calls,          \* per request, the functions invoked on its behalf, in order
    resp,           \* the HTTP response of each request
    loopHeldBy,     \* request whose blocking code occupies the event loop, 0 if none
    fpc,            \* position of the function-level runs
    x,              \* argument of a function-level run of _normalize_task
    nx,             \* _normalize_task(x)
    nnx,            \* _normalize_task(_normalize_task(x))
    text,           \* argument of a function-level run of _parse_steps
    parsed          \* _parse_steps(text)

sysvars == <<OPENAI_API_KEY, pc, payload, task, queue, content, steps, calls,
             resp, loopHeldBy>>
fnvars == <<fpc, x, nx, nnx, text, parsed>>
vars == <<sysvars, fnvars>>

---------------------------------------------------------------------------
(* Bounds of the model and constants of the program. *)

TaskLimit == 200      \* Field(max_length=200) and cleaned[:200]
TaskMin == 1          \* Field(min_length=1)
StepCount == 3        \* len(steps) < 3, steps[:3], len(steps) != 3

NReq == 3             \* requests in flight in the concurrent runs
Workers == 2          \* threads of the pool behind asyncio.to_thread
MaxHung == 1          \* remote calls that never return
MaxAffix == 2         \* characters before and after the padding of a task input
PadSlack == 2         \* padding lengths range from TaskLimit - PadSlack
MaxText == 4          \* length of the exhaustively enumerated remote texts
MaxLines == 4         \* lines of the remote texts built from sample lines

---------------------------------------------------------------------------
(* Characters and optional values. *)

None == <<>>
Some(v) == <<v>>

(* Of the characters that \s and str.strip() take as whitespace, and of the *)
(* line boundaries of str.splitlines(), those that occur in the inputs.     *)
Whitespace == {" ", "\t", "\n", "\r"}
LineBreaks == {"\n", "\r"}
Digits == {"0", "1", "2", "3", "4", "5", "6", "7", "8", "9"}
MarkerTail == {")", ".", "-"} \cup Whitespace
Bullets == {"-", "*"}

Rep(c, n) == [i \in 1..n |-> c]

Min(S) == CHOOSE m \in S : \A k \in S : m <= k
Max(S) == CHOOSE m \in S : \A k \in S : m >= k

(* Number of consecutive characters of s, from index i on, that are in S. *)
Run(s, i, S) ==
    LET stop == {j \in i..Len(s) : s[j] \notin S}
    IN  IF i > Len(s) THEN 0
        ELSE IF stop = {} THEN Len(s) - i + 1 ELSE Min(stop) - i

(* str.strip() *)
strip(s) ==
    LET solid == {i \in 1..Len(s) : s[i] \notin Whitespace}
    IN  IF solid = {} THEN <<>> ELSE SubSeq(s, Min(solid), Max(solid))

(* re.sub(r"\s+", " ", s): every maximal run of whitespace becomes one space. *)
CollapseEachChar(s) ==
    [i \in 1..Len(s) |-> IF s[i] \in Whitespace THEN " " ELSE s[i]]

CollapseWhitespace(s) ==
    LET idx == [i \in 1..Len(s) |-> i]
        kept == SelectSeq(idx, LAMBDA i :
                    ~(s[i] \in Whitespace /\ i > 1 /\ s[i - 1] \in Whitespace))
    IN  [j \in 1..Len(kept) |->
            IF s[kept[j]] \in Whitespace THEN " " ELSE s[kept[j]]]

(* s[:n] *)
Prefix(s, n) == SubSeq(s, 1, IF Len(s) < n THEN Len(s) ELSE n)

(* _normalize_task with r"\s" for r"\s+": no run is merged. *)
normalize_task_each_char(t) ==
    Prefix(CollapseEachChar(strip(t)), TaskLimit)

(* _normalize_task *)
_normalize_task(t) == Prefix(CollapseWhitespace(strip(t)), TaskLimit)

(* str.splitlines(): a final line is produced only when it is not empty;    *)
(* "\r\n" is one line boundary.                                             *)
RECURSIVE SplitFrom(_, _, _)
SplitFrom(s, i, cur) ==
    IF i > Len(s) THEN (IF cur = <<>> THEN <<>> ELSE <<cur>>)
    ELSE IF s[i] \in LineBreaks
         THEN <<cur>> \o SplitFrom(s,
                  IF s[i] = "\r" /\ i < Len(s) /\ s[i + 1] = "\n"
                  THEN i + 2 ELSE i + 1, <<>>)
         ELSE SplitFrom(s, i + 1, Append(cur, s[i]))

splitlines(s) == SplitFrom(s, 1, <<>>)

(* Length of the match of ^(\d+[\).\s-]+|[-*]\s+) at the start of line,     *)
(* 0 when the pattern does not match.  Both repetitions are greedy.         *)
NumberedOnly(line) ==
    LET d == Run(line, 1, Digits)
        m == Run(line, d + 1, MarkerTail)
    IN  IF d >= 1 /\ m >= 1 THEN d + m ELSE 0

MarkerMatch(line) ==
    LET d == Run(line, 1, Digits)
        m == Run(line, d + 1, MarkerTail)
        w == Run(line, 2, Whitespace)
    IN  IF d >= 1 /\ m >= 1 THEN d + m
        ELSE IF line # <<>> /\ line[1] \in Bullets /\ w >= 1 THEN 1 + w
        ELSE 0

(* re.sub(r"^(\d+[\).\s-]+|[-*]\s+)", "", line) *)
sub_marker(line) == SubSeq(line, MarkerMatch(line) + 1, Len(line))

(* _parse_steps *)
_parse_steps(t) ==
    LET raw == splitlines(t)
        stripped == [i \in 1..Len(raw) |-> strip(raw[i])]
        lines == SelectSeq(stripped, LAMBDA l : l # <<>>)
        cleaned == [i \in 1..Len(lines) |-> strip(sub_marker(lines[i]))]
    IN  SelectSeq(cleaned, LAMBDA c : c # <<>>)

FALLBACK_FIRST_PREFIX ==
    << "C", "l", "a", "r", "i", "f", "y", " ", "t", "h", "e", " ",
       "d", "e", "s", "i", "r", "e", "d", " ", "o", "u", "t", "c",
       "o", "m", "e", " ", "f", "o", "r", ":", " " >>

FALLBACK_SECOND ==
    << "L", "i", "s", "t", " ", "t", "h", "e", " ", "k", "e", "y",
       " ", "r", "e", "s", "o", "u", "r", "c", "e", "s", " ", "o",
       "r", " ", "i", "n", "f", "o", " ", "y", "o", "u", " ", "n",
       "e", "e", "d", " ", "t", "o", " ", "s", "t", "a", "r", "t",
       "." >>

FALLBACK_THIRD ==
    << "C", "o", "m", "p", "l", "e", "t", "e", " ", "t", "h", "e",
       " ", "f", "i", "r", "s", "t", " ", "s", "m", "a", "l", "l",
       " ", "a", "c", "t", "i", "o", "n", " ", "a", "n", "d", " ",
       "n", "o", "t", "e", " ", "t", "h", "e", " ", "n", "e", "x",
       "t", " ", "s", "t", "e", "p", "." >>

(* _fallback_steps *)
_fallback_steps(t) ==
    LET subject == _normalize_task(t)
    IN  << FALLBACK_FIRST_PREFIX \o subject \o <<".">>,
           FALLBACK_SECOND,
           FALLBACK_THIRD >>

---------------------------------------------------------------------------
(* The endpoint. *)

(* GenerateRequest: task: str = Field(..., min_length=1, max_length=200),   *)
(* checked on the text as posted.                                           *)
FieldValidTrimmed(raw) ==
    Len(strip(raw)) >= TaskMin /\ Len(strip(raw)) <= TaskLimit

FieldValid(raw) == Len(raw) >= TaskMin /\ Len(raw) <= TaskLimit

(* _get_openai_client: a client unless the key is None or empty. *)
HasClientUnlessNone(key) == key # None

HasClient(key) == key # None /\ key[1] # <<>>

(* response.choices[0].message.content or "" *)
message_text(c) == IF c = None THEN <<>> ELSE c[1]

(* Lines 102-105 of _generate_with_openai. *)
SelectAll(t, P) == IF Len(P) < StepCount THEN _fallback_steps(t) ELSE P

SelectPadded(t, P) ==
    IF Len(P) < StepCount
    THEN Prefix(P \o _fallback_steps(t), StepCount)
    ELSE Prefix(P, StepCount)

SelectSteps(t, P) ==
    IF Len(P) < StepCount THEN _fallback_steps(t) ELSE Prefix(P, StepCount)

NoResponse == [status |-> 0, detail |-> "", steps |-> <<>>]
Ok(s) == [status |-> 200, detail |-> "", steps |-> s]
HTTPException(code, d) == [status |-> code, detail |-> d, steps |-> <<>>]
ValidationRejected == HTTPException(422, "validation error")
Unhandled == HTTPException(500, "Internal Server Error")

Requests == DOMAIN pc
Busy == {r \in Requests : pc[r] \in {"remote", "hung"}}
Hung == {r \in Requests : pc[r] = "hung"}

(* A client posts {"task": raw}. *)
Post(r, raw) ==
    /\ pc[r] = "idle"
    /\ pc' = [pc EXCEPT ![r] = "received"]
    /\ payload' = [payload EXCEPT ![r] = raw]
    /\ UNCHANGED <<OPENAI_API_KEY, task, queue, content, steps, calls, resp,
                   loopHeldBy, fnvars>>

(* The framework builds GenerateRequest from the body before it calls the   *)
(* handler; a body that fails the field's validation is answered there.     *)
Validate(r) ==
    /\ pc[r] = "received"
    /\ loopHeldBy = 0
    /\ IF FieldValid(payload[r])
       THEN /\ pc' = [pc EXCEPT ![r] = "handler"]
            /\ resp' = resp
       ELSE /\ pc' = [pc EXCEPT ![r] = "done"]
            /\ resp' = [resp EXCEPT ![r] = ValidationRejected]
    /\ UNCHANGED <<OPENAI_API_KEY, payload, task, queue, content, steps, calls,
                   loopHeldBy, fnvars>>

(* `if not task` of generate_steps. *)
TaskMissingRaw(r, t) == payload[r] = <<>>

TaskMissing(r, t) == t = <<>>

(* await asyncio.to_thread(_generate_with_openai, task): the call is queued *)
(* for a pool thread and the coroutine is suspended, which frees the loop.  *)
OffloadAndWait(r) ==
    /\ queue' = Append(queue, r)
    /\ loopHeldBy' = r

Offload(r) ==
    /\ queue' = Append(queue, r)
    /\ loopHeldBy' = 0

(* generate_steps, up to the await. *)
Handle(r) ==
    /\ pc[r] = "handler"
    /\ loopHeldBy = 0
    /\ LET t == _normalize_task(payload[r])
       IN  /\ task' = [task EXCEPT ![r] = t]
           /\ IF TaskMissing(r, t)
              THEN /\ pc' = [pc EXCEPT ![r] = "done"]
                   /\ resp' = [resp EXCEPT ![r] =
                                  HTTPException(400, "Task is required.")]
                   /\ UNCHANGED <<queue, loopHeldBy>>
              ELSE /\ pc' = [pc EXCEPT ![r] = "queued"]
                   /\ resp' = resp
                   /\ Offload(r)
    /\ UNCHANGED <<OPENAI_API_KEY, payload, content, steps, calls, fnvars>>

(* A pool thread takes the oldest queued call and runs _generate_with_openai *)
(* up to the remote call: without a client it returns the fallback steps.   *)
(* OPENAI_MODEL and OPENAI_TEMPERATURE are passed on to the remote call and  *)
(* taken to be well formed; they have no part in the steps.                 *)
WorkerRun(r) ==
    /\ pc[r] = "queued"
    /\ queue # <<>> /\ Head(queue) = r
    /\ Cardinality(Busy) < Workers
    /\ queue' = Tail(queue)
    /\ IF HasClient(OPENAI_API_KEY)
       THEN /\ pc' = [pc EXCEPT ![r] = "remote"]
            /\ calls' = [calls EXCEPT ![r] =
                            @ \o <<"_get_openai_client", "create">>]
            /\ steps' = steps
       ELSE /\ pc' = [pc EXCEPT ![r] = "returned"]
            /\ calls' = [calls EXCEPT ![r] =
                            @ \o <<"_get_openai_client", "_fallback_steps">>]
            /\ steps' = [steps EXCEPT ![r] = _fallback_steps(task[r])]
    /\ UNCHANGED <<OPENAI_API_KEY, payload, task, content, resp, loopHeldBy,
                   fnvars>>

(* client.chat.completions.create raises: nothing in _generate_with_openai  *)
(* catches it, the thread's call ends with the exception.                   *)
RaiseAsFallback(r) ==
    /\ pc' = [pc EXCEPT ![r] = "returned"]
    /\ calls' = [calls EXCEPT ![r] = Append(@, "_fallback_steps")]
    /\ steps' = [steps EXCEPT ![r] = _fallback_steps(task[r])]

Raise(r) ==
    /\ pc' = [pc EXCEPT ![r] = "raised"]
    /\ calls' = calls
    /\ steps' = steps

CreateRaises(r) ==
    /\ pc[r] = "remote"
    /\ Raise(r)
    /\ UNCHANGED <<OPENAI_API_KEY, payload, task, queue, content, resp,
                   loopHeldBy, fnvars>>

(* client.chat.completions.create returns a response whose choices carry    *)
(* the given contents; lines 101-105 follow.  choices[0] of an empty list   *)
(* raises.                                                                  *)
CreateReturns(r, choices) ==
    /\ pc[r] = "remote"
    /\ IF choices = <<>>
       THEN /\ Raise(r)
            /\ content' = content
       ELSE LET P == _parse_steps(message_text(choices[1]))
            IN  /\ content' = [content EXCEPT ![r] = choices[1]]
                /\ pc' = [pc EXCEPT ![r] = "returned"]
                /\ steps' = [steps EXCEPT ![r] = SelectSteps(task[r], P)]
                /\ calls' = [calls EXCEPT ![r] =
                                IF Len(P) < StepCount
                                THEN @ \o <<"_parse_steps", "_fallback_steps">>
                                ELSE Append(@, "_parse_steps")]
    /\ UNCHANGED <<OPENAI_API_KEY, payload, task, queue, resp, loopHeldBy,
                   fnvars>>

(* The provider never answers: no timeout is set on the call. *)
CreateHangs(r) ==
    /\ pc[r] = "remote"
    /\ Cardinality(Hung) < MaxHung
    /\ pc' = [pc EXCEPT ![r] = "hung"]
    /\ UNCHANGED <<OPENAI_API_KEY, payload, task, queue, content, steps, calls,
                   resp, loopHeldBy, fnvars>>

(* generate_steps after the await: an exception of the call leaves the      *)
(* handler and the framework answers 500.                                   *)
Resume(r) ==
    /\ pc[r] \in {"returned", "raised"}
    /\ loopHeldBy \in {0, r}
    /\ loopHeldBy' = 0
    /\ pc' = [pc EXCEPT ![r] = "done"]
    /\ resp' = [resp EXCEPT ![r] =
                   IF pc[r] = "raised" THEN Unhandled
                   ELSE IF Len(steps[r]) # StepCount
                        THEN HTTPException(500, "Step generation failed.")
                        ELSE Ok(steps[r])]
    /\ UNCHANGED <<OPENAI_API_KEY, payload, task, queue, content, steps, calls,
                   fnvars>>

---------------------------------------------------------------------------
(* Inputs. *)

ApiKeys == {None, Some(<<>>), Some(<<"s", "k">>)}

SeqsUpTo(S, n) == UNION {[1..k -> S] : k \in 0..n}

PadLens == {0} \cup ((TaskLimit - PadSlack)..(TaskLimit + 1))
Affixes == SeqsUpTo({" ", "a"}, MaxAffix)
Gaps == {<<>>, <<" ", "\t">>}

(* Arguments of _normalize_task: up to MaxAffix characters, a padding of    *)
(* letters that brings the length near TaskLimit, possibly a run of two     *)
(* whitespace characters, up to MaxAffix characters.                        *)
NormInputs ==
    {pre \o Rep("b", n) \o gap \o post :
        pre \in Affixes, post \in Affixes, gap \in Gaps, n \in PadLens}

(* Posted tasks. *)
TaskInputs ==
    {pre \o Rep("b", n) \o gap \o post :
        pre \in {<<>>, <<" ">>}, post \in Affixes, gap \in Gaps, n \in PadLens}

RECURSIVE JoinLines(_)
JoinLines(ls) ==
    IF ls = <<>> THEN <<>>
    ELSE IF Len(ls) = 1 THEN ls[1]
    ELSE ls[1] \o <<"\n">> \o JoinLines(Tail(ls))

TextsOfLines(pool, n) == {JoinLines(ls) : ls \in SeqsUpTo(pool, n)}

SampleLines ==
    { <<"1", ")", " ", "a">>, <<"-", " ", "b">>, <<"2", ".">>, <<" ">>,
      <<"c", " ">>, <<"-">> }

(* Arguments of _parse_steps. *)
ParseInputs ==
    SeqsUpTo({"1", ")", "-", "*", " ", "\n", "a"}, MaxText)
        \cup TextsOfLines(SampleLines, MaxLines)
        \cup { <<"1", ".", "-", " ", "a", "\r", "\n", "*", "\t", "b">> }

(* What the remote call can return: no choice at all, or one choice whose   *)
(* content is None or a text.                                               *)
RemoteTexts ==
    TextsOfLines({<<"1", ".", " ", "a">>, <<"-", " ", "b">>}, MaxLines)
        \cup { FALLBACK_SECOND, <<"2", ")">>, <<"\n", " ", "\n">> }

RemoteChoices ==
    {<<>>, <<None>>} \cup {<<Some(t)>> : t \in RemoteTexts}

ConcTasks == {<<" ">>, <<"a">>}
ConcChoices ==
    {<<Some(<<"1", ".", "a", "\n", "2", ".", "b", "\n", "3", ".", "c">>)>>}

---------------------------------------------------------------------------
(* Function-level runs of _normalize_task and _parse_steps. *)

CallNormalize ==
    /\ fpc = "normalize"
    /\ nx' = _normalize_task(x)
    /\ fpc' = "normalized"
    /\ UNCHANGED <<sysvars, x, nnx, text, parsed>>

CallNormalizeAgain ==
    /\ fpc = "normalized"
    /\ nnx' = _normalize_task(nx)
    /\ fpc' = "renormalized"
    /\ UNCHANGED <<sysvars, x, nx, text, parsed>>

CallParse ==
    /\ fpc = "parse"
    /\ parsed' = _parse_steps(text)
    /\ fpc' = "parsed"
    /\ UNCHANGED <<sysvars, x, nx, nnx, text>>

---------------------------------------------------------------------------
(* Specifications. *)

InitServer(n, keys) ==
    /\ OPENAI_API_KEY \in keys
    /\ pc = [r \in 1..n |-> "idle"]
    /\ payload = [r \in 1..n |-> <<>>]
    /\ task = [r \in 1..n |-> <<>>]
    /\ queue = <<>>
    /\ content = [r \in 1..n |-> None]
    /\ steps = [r \in 1..n |-> <<>>]
    /\ calls = [r \in 1..n |-> <<>>]
    /\ resp = [r \in 1..n |-> NoResponse]
    /\ loopHeldBy = 0

InitFn(p, xs, ts) ==
    /\ fpc = p
    /\ x \in xs
    /\ text \in ts
    /\ nx = <<>> /\ nnx = <<>> /\ parsed = <<>>

(* One request, over every posted task and every outcome of the remote call. *)
Init == InitServer(1, ApiKeys) /\ InitFn("off", {<<>>}, {<<>>})
Next ==
    \/ \E r \in Requests, raw \in TaskInputs : Post(r, raw)
    \/ \E r \in Requests : Validate(r)
    \/ \E r \in Requests : Handle(r)
    \/ \E r \in Requests : WorkerRun(r)
    \/ \E r \in Requests, choices \in RemoteChoices : CreateReturns(r, choices)
    \/ \E r \in Requests : CreateRaises(r)
    \/ \E r \in Requests : CreateHangs(r)
    \/ \E r \in Requests : Resume(r)
Spec == Init /\ [][Next]_vars

(* NReq requests in flight.  The event loop and the pool threads run every  *)
(* step that is ready; a remote call that does not hang returns or raises.  *)
ConcInit == InitServer(NReq, {None, Some(<<"s", "k">>)}) /\ InitFn("off", {<<>>}, {<<>>})
ConcNext ==
    \/ \E r \in Requests, raw \in ConcTasks : Post(r, raw)
    \/ \E r \in Requests : Validate(r)
    \/ \E r \in Requests : Handle(r)
    \/ \E r \in Requests : WorkerRun(r)
    \/ \E r \in Requests, choices \in ConcChoices : CreateReturns(r, choices)
    \/ \E r \in Requests : CreateRaises(r)
    \/ \E r \in Requests : CreateHangs(r)
    \/ \E r \in Requests : Resume(r)
Completes(r) ==
    CreateRaises(r) \/ \E choices \in ConcChoices : CreateReturns(r, choices)
ConcFairness ==
    \A r \in 1..NReq :
        /\ WF_vars(Validate(r))
        /\ WF_vars(Handle(r))
        /\ WF_vars(WorkerRun(r))
        /\ WF_vars(Completes(r))
        /\ WF_vars(Resume(r))
ConcSpec == ConcInit /\ [][ConcNext]_vars /\ ConcFairness

(* _normalize_task applied once and twice to every argument of NormInputs.  *)
NormInit == InitServer(1, {None}) /\ InitFn("normalize", NormInputs, {<<>>})
NormNext == CallNormalize \/ CallNormalizeAgain
NormSpec == NormInit /\ [][NormNext]_vars

(* _parse_steps applied to every argument of ParseInputs. *)
ParseInit == InitServer(1, {None}) /\ InitFn("parse", {<<>>}, ParseInputs)
ParseNext == CallParse
ParseSpec == ParseInit /\ [][ParseNext]_vars

---------------------------------------------------------------------------
(* Properties. *)

Range(s) == {s[i] : i \in DOMAIN s}
Count(s, e) == Cardinality({i \in DOMAIN s : s[i] = e})
Contains(s, t) == \E i \in 0..(Len(s) - Len(t)) : SubSeq(s, i + 1, i + Len(t)) = t
AllNonEmpty(ss) == \A i \in DOMAIN ss : ss[i] # <<>>

CredentialConfigured == OPENAI_API_KEY # None /\ OPENAI_API_KEY # Some(<<>>)
RemoteText(r) == IF content[r] = None THEN <<>> ELSE content[r][1]
RemoteReturned(r) == "_parse_steps" \in Range(calls[r])
RemoteFailed(r) ==
    \/ pc[r] = "raised"
    \/ pc[r] = "done" /\ "create" \in Range(calls[r]) /\ ~RemoteReturned(r)
ReachedGenerator(r) == "_get_openai_client" \in Range(calls[r])

(* C1: whatever the credential and whatever the remote call returned, a     *)
(* list returned by _generate_with_openai has exactly 3 elements, each a    *)
(* non-empty string; the handler never answers 500 "Step generation         *)
(* failed.", and every 200 response carries exactly 3 non-empty steps.      *)
C1_ExactlyThreeSteps ==
    \A r \in Requests :
        /\ pc[r] = "returned" => Len(steps[r]) = 3 /\ AllNonEmpty(steps[r])
        /\ resp[r] # HTTPException(500, "Step generation failed.")
        /\ resp[r].status = 200 =>
              Len(resp[r].steps) = 3 /\ AllNonEmpty(resp[r].steps)

(* A 200 response after the remote text parsed to more than 3 steps. *)
C1_Witness ==
    \E r \in Requests :
        /\ resp[r].status = 200
        /\ RemoteReturned(r)
        /\ Len(_parse_steps(RemoteText(r))) > 3

(* C2: with a credential, once the remote call has returned, the result is  *)
(* decided by P = _parse_steps(content or ""): fewer than 3 steps give      *)
(* exactly _fallback_steps(task), produced by the fallback alone; 3 or more *)
(* give exactly the first 3 elements of P in order.                         *)
C2_FallbackOrFirstThree ==
    \A r \in Requests :
        CredentialConfigured /\ RemoteReturned(r) =>
            LET P == _parse_steps(RemoteText(r))
            IN  /\ pc[r] \in {"returned", "done"}
                /\ IF Len(P) < 3
                   THEN /\ steps[r] = _fallback_steps(task[r])
                        /\ Count(calls[r], "_fallback_steps") = 1
                        /\ \A i \in 1..3 : steps[r][i] = _fallback_steps(task[r])[i]
                   ELSE /\ steps[r] = <<P[1], P[2], P[3]>>
                        /\ "_fallback_steps" \notin Range(calls[r])
                /\ pc[r] = "done" => resp[r] = Ok(steps[r])

(* The remote text parsed to 2 steps and the response is the fallback. *)
C2_Witness ==
    \E r \in Requests :
        /\ pc[r] = "done"
        /\ RemoteReturned(r)
        /\ Len(_parse_steps(RemoteText(r))) = 2
        /\ resp[r].steps = _fallback_steps(task[r])

(* C3 as stated: with OPENAI_API_KEY unset or empty no remote call is made  *)
(* and every request with a non-empty normalized task ends with 200 and     *)
(* exactly the three fallback steps, the first containing the normalized    *)
(* task.                                                                    *)
C3_EveryNonEmptyTask ==
    ~CredentialConfigured =>
        \A r \in Requests :
            /\ "create" \notin Range(calls[r])
            /\ pc[r] = "done" /\ _normalize_task(payload[r]) # <<>> =>
                  /\ resp[r].status = 200
                  /\ resp[r].steps = _fallback_steps(_normalize_task(payload[r]))
                  /\ Contains(resp[r].steps[1], _normalize_task(payload[r]))

(* C3, amended: with OPENAI_API_KEY unset or empty no remote call is ever   *)
(* made, and a request whose posted task has 1 to 200 characters and a      *)
(* non-empty normalized task ends with 200 and exactly the three fallback   *)
(* steps, the first of which contains the normalized task.                  *)
C3_NoCredentialFallback ==
    ~CredentialConfigured =>
        \A r \in Requests :
            /\ "create" \notin Range(calls[r])
            /\ pc[r] \notin {"remote", "hung", "raised"}
            /\ /\ pc[r] = "done"
               /\ Len(payload[r]) >= 1 /\ Len(payload[r]) <= 200
               /\ _normalize_task(payload[r]) # <<>>
               => /\ resp[r].status = 200
                  /\ Len(resp[r].steps) = 3
                  /\ resp[r].steps = _fallback_steps(_normalize_task(payload[r]))
                  /\ Contains(resp[r].steps[1], _normalize_task(payload[r]))

(* An empty (not unset) key, and a 200 response to a task of full length. *)
C3_Witness ==
    /\ OPENAI_API_KEY = Some(<<>>)
    /\ \E r \in Requests :
          /\ resp[r].status = 200
          /\ Len(payload[r]) = TaskLimit
          /\ Contains(resp[r].steps[1], task[r])

C5_RemoteFailurePropagates ==
    \A r \in Requests :
        /\ Count(calls[r], "create") <= 1
        /\ RemoteFailed(r) =>
              /\ CredentialConfigured
              /\ Count(calls[r], "create") = 1
              /\ "_fallback_steps" \notin Range(calls[r])
              /\ steps[r] = <<>>
              /\ resp[r].status # 200
              /\ resp[r].steps = <<>>
              /\ pc[r] = "done" => resp[r] = Unhandled

(* A request answered 500 after its one remote call failed. *)
C5_Witness ==
    \E r \in Requests :
        /\ pc[r] = "done"
        /\ RemoteFailed(r)
        /\ resp[r].status = 500

(* C8 as stated: the length of the trimmed task decides: 1 to 200           *)
(* characters pass the validation and reach _generate_with_openai, an       *)
(* empty or longer trimmed task is rejected before it.                      *)
C8_TrimmedLengthDecides ==
    \A r \in Requests :
        pc[r] = "done" =>
            LET n == Len(strip(payload[r]))
            IN  IF n >= 1 /\ n <= 200
                THEN resp[r] # ValidationRejected /\ ReachedGenerator(r)
                ELSE resp[r].status \in {400, 422} /\ ~ReachedGenerator(r)

(* C8, amended: the length of the task as posted decides the validation: a  *)
(* task of 1 to 200 characters passes it, and reaches                       *)
(* _generate_with_openai when it is not all whitespace (400 otherwise); an  *)
(* empty task or one of more than 200 characters is rejected by the         *)
(* validation, whatever its trimmed length.                                 *)
C8_PostedLengthDecides ==
    \A r \in Requests :
        LET n == Len(payload[r])
            blank == \A i \in DOMAIN payload[r] : payload[r][i] \in Whitespace
        IN  /\ ReachedGenerator(r) => n >= 1 /\ n <= 200 /\ ~blank
            /\ pc[r] = "done" =>
                  IF n >= 1 /\ n <= 200
                  THEN /\ resp[r] # ValidationRejected
                       /\ IF blank
                          THEN resp[r].status = 400 /\ ~ReachedGenerator(r)
                          ELSE ReachedGenerator(r)
                  ELSE resp[r] = ValidationRejected /\ ~ReachedGenerator(r)

(* A posted task of more than 200 characters whose trimmed form has 200,    *)
(* rejected by the validation.                                              *)
C8_Witness ==
    \E r \in Requests :
        /\ Len(payload[r]) > 200
        /\ Len(strip(payload[r])) = 200
        /\ resp[r] = ValidationRejected

(* C6: a request that has been posted gets its response unless its own     *)
(* remote call never returns, whatever happens to the remote calls of the   *)
(* other requests; and a step that is not a request's own changes none of   *)
(* that request's data.                                                     *)
C6_OthersNotStalled ==
    /\ \A r \in 1..NReq : (pc[r] = "received") ~> (pc[r] \in {"done", "hung"})
    /\ [][\A r \in 1..NReq :
            pc'[r] = pc[r] =>
                /\ payload'[r] = payload[r] /\ task'[r] = task[r]
                /\ content'[r] = content[r] /\ steps'[r] = steps[r]
                /\ calls'[r] = calls[r] /\ resp'[r] = resp[r]]_vars

(* One request's remote call hangs and every other request, each after a    *)
(* remote call of its own, has its 200 response.                            *)
C6_Witness ==
    \E r \in Requests :
        /\ pc[r] = "hung"
        /\ \A s \in Requests \ {r} :
              pc[s] = "done" /\ resp[s].status = 200 /\ RemoteReturned(s)

(* C7: _normalize_task(_normalize_task(x)) = _normalize_task(x) for every   *)
(* x, also for x longer than 200 characters.                                *)
C7_Idempotent == fpc = "renormalized" => nnx = nx

(* C10: _normalize_task(x) has at most 200 characters and no two            *)
(* consecutive whitespace characters, and is empty when x is.               *)
C10_BoundedAndCollapsed ==
    fpc \in {"normalized", "renormalized"} =>
        /\ Len(nx) <= 200
        /\ \A i \in 1..(Len(nx) - 1) :
              ~(nx[i] \in Whitespace /\ nx[i + 1] \in Whitespace)
        /\ x = <<>> => nx = <<>>

(* An argument longer than 200 characters with a run of two whitespace      *)
(* characters between letters, cut to 200 characters.                       *)
C10_Witness ==
    /\ fpc = "normalized"
    /\ Len(x) > 200
    /\ Len(nx) = 200
    /\ \E i \in 2..(Len(x) - 2) :
          /\ x[i - 1] \notin Whitespace
          /\ x[i] \in Whitespace /\ x[i + 1] \in Whitespace
          /\ x[i + 2] \notin Whitespace

(* C9: _parse_steps returns, in document order, the non-blank lines, each   *)
(* trimmed and without its leading list marker, lines left empty omitted;   *)
(* every step is non-empty without leading or trailing whitespace.          *)
IsNumberMarker(p) ==
    \E d \in 1..(Len(p) - 1) :
        /\ \A i \in 1..d : p[i] \in Digits
        /\ \A i \in (d + 1)..Len(p) : p[i] \in {")", ".", "-", " ", "\t", "\n", "\r"}
IsBulletMarker(p) ==
    /\ Len(p) >= 2
    /\ p[1] \in {"-", "*"}
    /\ \A i \in 2..Len(p) : p[i] \in Whitespace
LeadingMarker(line) ==
    Max({0} \cup {k \in 1..Len(line) :
                     \/ IsNumberMarker(SubSeq(line, 1, k))
                     \/ IsBulletMarker(SubSeq(line, 1, k))})
IsTrimmed(s) == s = <<>> \/ (s[1] \notin Whitespace /\ s[Len(s)] \notin Whitespace)
Trimmed(s) ==
    LET cut == CHOOSE p \in (1..(Len(s) + 1)) \X (0..Len(s)) :
                   /\ p[1] <= p[2] + 1
                   /\ \A k \in 1..(p[1] - 1) : s[k] \in Whitespace
                   /\ \A k \in (p[2] + 1)..Len(s) : s[k] \in Whitespace
                   /\ IsTrimmed(SubSeq(s, p[1], p[2]))
    IN  SubSeq(s, cut[1], cut[2])
IsBlank(l) == \A i \in DOMAIN l : l[i] \in Whitespace
ExpectedSteps(t) ==
    LET nonblank == SelectSeq(splitlines(t), LAMBDA l : ~IsBlank(l))
        each == [i \in 1..Len(nonblank) |->
                    LET l == Trimmed(nonblank[i])
                    IN  SubSeq(l, LeadingMarker(l) + 1, Len(l))]
    IN  SelectSeq(each, LAMBDA e : e # <<>>)

C9_ParsedSteps ==
    fpc = "parsed" =>
        /\ parsed = ExpectedSteps(text)
        /\ \A i \in DOMAIN parsed : parsed[i] # <<>> /\ IsTrimmed(parsed[i])

(* More than 3 steps, a numbered and a bulleted line among them. *)
C9_Witness ==
    /\ fpc = "parsed"
    /\ Len(parsed) > 3
    /\ \E i, j \in DOMAIN splitlines(text) :
          /\ splitlines(text)[i] = <<"1", ")", " ", "a">>
          /\ splitlines(text)[j] = <<"-", " ", "b">>
    /\ <<"a">> \in Range(parsed) /\ <<"b">> \in Range(parsed)

===========================================================================
